---- MODULE Spec2Model ----
(***************************************************************************)
(* Token validation of the Keycloak-protected Ollama gateway               *)
(* (src/ollama/keycloak.py): the JWKS cache of KeycloakAuth, the key       *)
(* lookup with its forced refresh, local JWT validation and token          *)
(* introspection.                                                          *)
(*                                                                         *)
(* A request is a coroutine.  asyncio runs one coroutine at a time and     *)
(* switches only at an await that really suspends: the GET of the key      *)
(* endpoint and the POST to the introspection endpoint.  Each action below *)
(* is the code between two such suspension points.                         *)
(***************************************************************************)
EXTENDS Integers, Sequences, FiniteSets, TLC

(***************************************************************************)
(* Time.  time.time() is seconds since 1970, far more than the cache       *)
(* duration; the clock of the model starts at StartTime and advances in    *)
(* steps of half the cache duration.                                       *)
(***************************************************************************)
MaxTicks == 2

jwks_cache_duration == 3600

TickStep == jwks_cache_duration \div 2

StartTime == 2 * jwks_cache_duration

Clock == {StartTime + i * TickStep : i \in 0..MaxTicks}

(***************************************************************************)
(* Key sets.  A JWKS document is a JSON object with a "keys" array; an     *)
(* entry carries kid and, for an RSA key, kty/n/e (rsa = TRUE).  mat names *)
(* the key pair the entry is the public half of.                           *)
(***************************************************************************)
Kids == {1, 2}

NoKid == 0

RsaKey(k) == [kid |-> k, mat |-> k, rsa |-> TRUE]

PartialKey(k) == [kid |-> k, mat |-> k, rsa |-> FALSE]

NoKey == [kid |-> NoKid, mat |-> 0, rsa |-> FALSE]

None == [is_none |-> TRUE, keys |-> <<>>]

Jwks(ks) == [is_none |-> FALSE, keys |-> ks]

\* What the identity provider may answer with a 2xx JSON body.
JwksDocs ==
    { Jwks(<<RsaKey(1)>>),
      Jwks(<<RsaKey(1), RsaKey(2)>>),
      Jwks(<<PartialKey(2)>>) }

\* httpx.HTTPError: connection failure, timeout, raise_for_status on non-2xx.
HttpErrors == {"ConnectError", "TimeoutException", "HTTPStatusError"}

\* A 2xx answer whose body is not JSON: response.json() raises ValueError.
BadJson == "JSONDecodeError"

FetchOutcomes ==
    [kind : {"ok"}, doc : JwksDocs]
    \cup [kind : HttpErrors \cup {BadJson}, doc : {None}]

(***************************************************************************)
(* Tokens.  hdr: whether the first segment decodes to a JSON header; kid:  *)
(* the header's key id (NoKid: absent or empty); alg: the header's alg;    *)
(* signer: the key pair that signed the token (0: the signature matches no *)
(* key); exp: the exp claim; aud, iss: the audience and issuer claims      *)
(* relative to the configured client id and realm issuer URL.  iat is an   *)
(* integer and there is no nbf claim.                                      *)
(***************************************************************************)
Algs == {"RS256", "HS256", "none"}

ExpValues == {StartTime - TickStep, StartTime + TickStep}

WellFormedTokens ==
    { t \in [hdr : {"ok"}, kid : Kids \cup {NoKid}, alg : Algs,
             signer : Kids \cup {0}, exp : ExpValues,
             aud : {"client_id", "other"},
             iss : {"issuer_url", "other"}] :
        t.signer \in {0, t.kid} }

MalformedToken ==
    [hdr |-> "malformed", kid |-> NoKid, alg |-> "none", signer |-> 0,
     exp |-> StartTime - TickStep, aud |-> "other", iss |-> "other"]

Tokens == WellFormedTokens \cup {MalformedToken}

(***************************************************************************)
(* Settings (app/config.py): each flag is read from the environment and    *)
(* defaults to the value of its Field.                                     *)
(***************************************************************************)
EnvValues == {"unset", "true", "false"}

FieldDefault(name) ==
    CASE name = "KEYCLOAK_VERIFY_AUDIENCE" -> TRUE
      [] name = "KEYCLOAK_VERIFY_ISSUER" -> TRUE
      [] name = "KEYCLOAK_USE_INTROSPECTION" -> FALSE

SettingNames ==
    {"KEYCLOAK_VERIFY_AUDIENCE", "KEYCLOAK_VERIFY_ISSUER",
     "KEYCLOAK_USE_INTROSPECTION"}

LoadSettings(e) ==
    [n \in SettingNames |->
        IF e[n] = "unset" THEN FieldDefault(n) ELSE e[n] = "true"]

(***************************************************************************)
(* Results of a call: a returned value or a raised exception.              *)
(***************************************************************************)
Pending == [kind |-> "pending", status |-> 0, detail |-> "", www |-> FALSE]

Return(what) == [kind |-> "return", status |-> 0, detail |-> what, www |-> FALSE]

HTTPException(code, text, hdr) ==
    [kind |-> "HTTPException", status |-> code, detail |-> text, www |-> hdr]

\* An exception that is no HTTPException leaves the call as it is.
Unhandled(name) == [kind |-> "unhandled", status |-> 0, detail |-> name, www |-> FALSE]

\* What the request is answered with once the dependencies have run: the
\* shape of a result, with the User handed on or the roles a detail names.
NoReply ==
    [kind |-> "pending", status |-> 0, detail |-> "",
     required_roles |-> <<>>, www |-> FALSE, user |-> <<>>]

Raised(name) ==
    [kind |-> "unhandled", status |-> 0, detail |-> name,
     required_roles |-> <<>>, www |-> FALSE, user |-> <<>>]

\* The answer an operation body returns, and the HTTPException it raises.
Response(body) ==
    [kind |-> "response", status |-> 200, detail |-> body,
     required_roles |-> <<>>, www |-> FALSE, user |-> <<>>]

BodyException(code, text) ==
    [kind |-> "HTTPException", status |-> code, detail |-> text,
     required_roles |-> <<>>, www |-> FALSE, user |-> <<>>]

\* The fields of a HealthResponse; none before one is built.
NoHealth ==
    [status |-> "", ollama_connected |-> FALSE, keycloak_configured |-> FALSE]

(***************************************************************************)
(* KeycloakAuth.get_jwks, the synchronous parts.                           *)
(***************************************************************************)
\* `if self._jwks_cache`: None is falsy, a JSON object with a keys entry is not.
Truthy(cache) == ~cache.is_none

\* Mutation: a cache whose age has just reached the duration still counts.
CacheFreshAtDuration(cache, ctime, t) ==
    Truthy(cache) /\ (t - ctime) <= jwks_cache_duration

CacheFresh(cache, ctime, t) ==
    Truthy(cache) /\ (t - ctime) < jwks_cache_duration

\* Mutation: the except branch raises whatever is cached.
NeverServeStale(cache) == FALSE

\* The except branch: serve the cached set when there is one.
ServeStale(cache) == Truthy(cache)

(***************************************************************************)
(* State.                                                                  *)
(*   jwks_cache, jwks_cache_time  the fields of the KeycloakAuth singleton *)
(*   now                          time.time()                              *)
(*   settings                     the Settings loaded from the environment *)
(*                                at import                                *)
(*   rq                           the frame of each request coroutine      *)
(*   fetched                      history: the key set of the latest       *)
(*                                successful fetch (None: none yet)        *)
(***************************************************************************)
VARIABLES jwks_cache, jwks_cache_time, now, settings, rq, fetched, mp

vars == <<jwks_cache, jwks_cache_time, now, settings, rq, fetched, mp>>

Requests == {1, 2}

\* Mutation: get_current_user ignores the switch.
IntrospectAlways == TRUE

\* `if settings.KEYCLOAK_USE_INTROSPECTION` in get_current_user.
UseIntrospection == settings["KEYCLOAK_USE_INTROSPECTION"]

\* The requests served one after the other by Spec.
SeqRequests == {1}

\* The log of one get_jwks call: the call site in get_signing_key (1: line
\* 136, 2: line 144), whether a GET was sent, how it ended, the cache the
\* except handler saw, and what the call gave back.
CallLog(site, fetch, outcome, cached, ret, jwks) ==
    [site |-> site, fetch |-> fetch, outcome |-> outcome, cached |-> cached,
     ret |-> ret, jwks |-> jwks]

IdleFrame ==
    [pc |-> "idle", op |-> "none", token |-> MalformedToken, kid |-> NoKid,
     current_time |-> 0, site |-> 0, jwks |-> None, signing_key |-> NoKey,
     response |-> "none", result |-> Pending, calls |-> <<>>, lookups |-> 0,
     start_cache |-> None, start_fresh |-> FALSE,
     user |-> <<>>, reply |-> NoReply,
     operation |-> "none", inference |-> 0, health |-> NoHealth]

NewFrame(op, tok) ==
    [IdleFrame EXCEPT !.op = op, !.token = tok, !.start_cache = jwks_cache,
                      !.start_fresh =
                          CacheFresh(jwks_cache, jwks_cache_time, now)]

Complete(f, res) == [f EXCEPT !.pc = "done", !.result = res]

\* What a step leaves behind: the frame, and the two cache fields.
Step(f, cache, ctime) == [frame |-> f, cache |-> cache, time |-> ctime]

(***************************************************************************)
(* KeycloakAuth.get_signing_key: the lookup loop.                          *)
(***************************************************************************)
MatchIdx(jwks, kid) == {i \in 1..Len(jwks.keys) : jwks.keys[i].kid = kid}

\* Mutation: the loop gives up after the first entry.
FindKeyFirstOnly(jwks, kid) ==
    IF Len(jwks.keys) >= 1 /\ jwks.keys[1].kid = kid THEN jwks.keys[1]
    ELSE NoKey

FindKey(jwks, kid) ==
    IF MatchIdx(jwks, kid) = {} THEN NoKey
    ELSE jwks.keys[CHOOSE i \in MatchIdx(jwks, kid) :
                      \A j \in MatchIdx(jwks, kid) : i <= j]

(***************************************************************************)
(* jose.jwt.decode as validate_token calls it: the algorithm of the header *)
(* against the allowed list, the signature against the key, then the       *)
(* claims in the library's order: exp, then aud and iss when their checks  *)
(* are switched on.                                                        *)
(***************************************************************************)
algorithms == {"RS256"}

\* Mutation: the audience is checked before the expiry.
JwtDecodeAudienceFirst(tok, key, algs, verify_aud, verify_iss, t) ==
    IF tok.alg \notin algs THEN "JWTError"
    ELSE IF tok.signer # key.mat THEN "JWTError"
    ELSE IF verify_aud /\ tok.aud = "other" THEN "JWTClaimsError"
    ELSE IF tok.exp < t THEN "ExpiredSignatureError"
    ELSE IF verify_iss /\ tok.iss # "issuer_url" THEN "JWTClaimsError"
    ELSE "payload"

\* Mutation: the algorithm is taken from the token's own header.
JwtDecodeHeaderAlg(tok, key, algs, verify_aud, verify_iss, t) ==
    IF tok.signer # key.mat THEN "JWTError"
    ELSE IF tok.exp < t THEN "ExpiredSignatureError"
    ELSE IF verify_aud /\ tok.aud = "other" THEN "JWTClaimsError"
    ELSE IF verify_iss /\ tok.iss # "issuer_url" THEN "JWTClaimsError"
    ELSE "payload"

\* Mutation: the audience is never compared.
JwtDecodeNoAudience(tok, key, algs, verify_aud, verify_iss, t) ==
    IF tok.alg \notin algs THEN "JWTError"
    ELSE IF tok.signer # key.mat THEN "JWTError"
    ELSE IF tok.exp < t THEN "ExpiredSignatureError"
    ELSE IF verify_iss /\ tok.iss # "issuer_url" THEN "JWTClaimsError"
    ELSE "payload"

JwtDecode(tok, key, algs, verify_aud, verify_iss, t) ==
    IF tok.alg \notin algs THEN "JWTError"
    ELSE IF tok.signer # key.mat THEN "JWTError"
    ELSE IF tok.exp < t THEN "ExpiredSignatureError"
    ELSE IF verify_aud /\ tok.aud = "other" THEN "JWTClaimsError"
    ELSE IF verify_iss /\ tok.iss # "issuer_url" THEN "JWTClaimsError"
    ELSE "payload"

\* validate_token once get_signing_key has returned: build rsa_key, decode,
\* map the library's exceptions.
VerifyToken(tok, key, t) ==
    IF ~key.rsa THEN Unhandled("KeyError")
    ELSE LET d == JwtDecode(tok, key, algorithms,
                            settings["KEYCLOAK_VERIFY_AUDIENCE"],
                            settings["KEYCLOAK_VERIFY_ISSUER"], t)
         IN CASE d = "payload" -> Return("payload")
              [] d = "ExpiredSignatureError" ->
                    HTTPException(401, "Token has expired", TRUE)
              [] OTHER ->
                    HTTPException(401, "Could not validate credentials", TRUE)

\* The cache as the lookup loop leaves it before it asks again (line 143).
ForcedRefreshCache(cache) == None

RECURSIVE AfterJwks(_, _, _, _)

\* Mutation: get_jwks without the freshness test of line 94.
GetJwksAlwaysFetch(f, site, cache, ctime) ==
    Step([f EXCEPT !.pc = "fetch", !.site = site, !.current_time = now,
                   !.calls = Append(@, CallLog(site, TRUE, "pending",
                                               None, "pending", None))],
         cache, ctime)

\* get_jwks up to its await: the cached set, or the GET is sent.
GetJwks(f, site, cache, ctime) ==
    IF CacheFresh(cache, ctime, now)
    THEN AfterJwks([f EXCEPT !.site = site,
                             !.calls = Append(@, CallLog(site, FALSE, "none",
                                                         None, "jwks", cache))],
                   cache, cache, ctime)
    ELSE Step([f EXCEPT !.pc = "fetch", !.site = site, !.current_time = now,
                        !.calls = Append(@, CallLog(site, TRUE, "pending",
                                                    None, "pending", None))],
              cache, ctime)

\* Mutation: every miss clears the cache and asks again.
AfterJwksRetries(f, jwks, cache, ctime) ==
    LET key == FindKey(jwks, f.kid)
        g == [f EXCEPT !.jwks = jwks, !.lookups = @ + 1]
    IN IF key # NoKey
       THEN Step(Complete([g EXCEPT !.signing_key = key],
                          VerifyToken(g.token, key, now)),
                 cache, ctime)
       ELSE GetJwks(g, 2, ForcedRefreshCache(cache), ctime)

\* get_signing_key from the return of get_jwks at f.site (lines 138-153),
\* and validate_token from the return of get_signing_key.
AfterJwks(f, jwks, cache, ctime) ==
    LET key == FindKey(jwks, f.kid)
        g == [f EXCEPT !.jwks = jwks, !.lookups = @ + 1]
    IN IF key # NoKey
       THEN Step(Complete([g EXCEPT !.signing_key = key],
                          VerifyToken(g.token, key, now)),
                 cache, ctime)
       ELSE IF f.site = 1
       THEN GetJwks(g, 2, ForcedRefreshCache(cache), ctime)
       ELSE Step(Complete(g, HTTPException(401, "Unable to find signing key",
                                           FALSE)),
                 cache, ctime)

\* Mutation: the key id is not tested before the lookup.
GetSigningKeyNoKidTest(f, cache, ctime) ==
    IF f.token.hdr = "malformed"
    THEN Step(Complete(f, HTTPException(401, "Invalid token format", FALSE)),
              cache, ctime)
    ELSE GetJwks([f EXCEPT !.kid = f.token.kid], 1, cache, ctime)

\* get_signing_key from its first line to the first get_jwks (lines 125-136).
GetSigningKey(f, cache, ctime) ==
    IF f.token.hdr = "malformed"
    THEN Step(Complete(f, HTTPException(401, "Invalid token format", FALSE)),
              cache, ctime)
    ELSE IF f.token.kid = NoKid
    THEN Step(Complete(f, HTTPException(401, "Token missing key ID", FALSE)),
              cache, ctime)
    ELSE GetJwks([f EXCEPT !.kid = f.token.kid], 1, cache, ctime)

\* The last entry of the call log, closed.
CloseCall(f, outcome, cached, ret, jwks) ==
    [f EXCEPT !.calls[Len(f.calls)] =
        CallLog(f.site, TRUE, outcome, cached, ret, jwks)]

\* Mutation: the timestamp is taken when the answer arrives.
ResumeGetJwksStampsReturn(f, o, cache, ctime) ==
    IF o.kind = "ok"
    THEN AfterJwks(CloseCall(f, "ok", None, "jwks", o.doc),
                   o.doc, o.doc, now)
    ELSE IF o.kind \in HttpErrors
    THEN IF ServeStale(cache)
         THEN AfterJwks(CloseCall(f, "HTTPError", cache, "jwks", cache),
                        cache, cache, ctime)
         ELSE Step(Complete(CloseCall(f, "HTTPError", cache, "raise", None),
                            HTTPException(503,
                                "Unable to verify token: Keycloak unavailable",
                                FALSE)),
                   cache, ctime)
    ELSE Step(Complete(CloseCall(f, o.kind, None, "unhandled", None),
                       Unhandled(o.kind)),
              cache, ctime)

\* Mutation: the key set is stored, the timestamp is not.
ResumeGetJwksKeepsTime(f, o, cache, ctime) ==
    IF o.kind = "ok"
    THEN AfterJwks(CloseCall(f, "ok", None, "jwks", o.doc),
                   o.doc, o.doc, ctime)
    ELSE IF o.kind \in HttpErrors
    THEN IF ServeStale(cache)
         THEN AfterJwks(CloseCall(f, "HTTPError", cache, "jwks", cache),
                        cache, cache, ctime)
         ELSE Step(Complete(CloseCall(f, "HTTPError", cache, "raise", None),
                            HTTPException(503,
                                "Unable to verify token: Keycloak unavailable",
                                FALSE)),
                   cache, ctime)
    ELSE Step(Complete(CloseCall(f, o.kind, None, "unhandled", None),
                       Unhandled(o.kind)),
              cache, ctime)

\* get_jwks from the answer of the GET (lines 100-113).
ResumeGetJwks(f, o, cache, ctime) ==
    IF o.kind = "ok"
    THEN AfterJwks(CloseCall(f, "ok", None, "jwks", o.doc),
                   o.doc, o.doc, f.current_time)
    ELSE IF o.kind \in HttpErrors
    THEN IF ServeStale(cache)
         THEN AfterJwks(CloseCall(f, "HTTPError", cache, "jwks", cache),
                        cache, cache, ctime)
         ELSE Step(Complete(CloseCall(f, "HTTPError", cache, "raise", None),
                            HTTPException(503,
                                "Unable to verify token: Keycloak unavailable",
                                FALSE)),
                   cache, ctime)
    ELSE Step(Complete(CloseCall(f, o.kind, None, "unhandled", None),
                       Unhandled(o.kind)),
              cache, ctime)

(***************************************************************************)
(* KeycloakAuth.introspect_token.                                          *)
(***************************************************************************)
IntrospectOutcomes ==
    [kind : {"ok"}, active : {"absent", "true", "false"}]
    \cup [kind : HttpErrors \cup {BadJson}, active : {"absent"}]

\* Mutation: a missing flag counts as active.
ActiveUnlessFalse(resp) == resp.active # "false"

\* result.get("active", False)
Active(resp) == resp.active = "true"

\* Mutation: the except clause names the connection and status errors only.
ResumeIntrospectTimeoutEscapes(f, o) ==
    IF o.kind = "ok"
    THEN IF ~Active(o)
         THEN Complete(f, HTTPException(401, "Token is not active", TRUE))
         ELSE Complete(f, Return("result"))
    ELSE IF o.kind \in {"ConnectError", "HTTPStatusError"}
    THEN Complete(f, HTTPException(503, "Token introspection failed", FALSE))
    ELSE Complete(f, Unhandled(o.kind))

ResumeIntrospect(f, o) ==
    IF o.kind = "ok"
    THEN IF ~Active(o)
         THEN Complete(f, HTTPException(401, "Token is not active", TRUE))
         ELSE Complete(f, Return("result"))
    ELSE IF o.kind \in HttpErrors
    THEN Complete(f, HTTPException(503, "Token introspection failed", FALSE))
    ELSE Complete(f, Unhandled(o.kind))

(***************************************************************************)
(* Token claims as extract_user_from_claims reads them.  A key that may be *)
(* missing from a JSON object is a list of no or one value.                *)
(***************************************************************************)
Absent == <<>>

Some(v) == <<v>>

\* dict.get(key, default)
Get(entry, default) == IF Len(entry) = 0 THEN default ELSE entry[1]

Range(xs) == {xs[i] : i \in 1..Len(xs)}

MaxRoleList == 2

Roles == {"admin", "user"}

RoleLists == UNION {[1..n -> Roles] : n \in 0..MaxRoleList}

\* settings.KEYCLOAK_CLIENT_ID, read once by KeycloakAuth.__init__.
client_id == "document-api"

ClientIds == {client_id, "account"}

\* A realm_access or resource_access[client] object: its roles key.
RoleEntries == [roles : {Absent} \cup {Some(l) : l \in RoleLists}]

OtherClientEntries == {[roles |-> Some(<<"admin">>)]}

ResourceAccessDicts ==
    {d \in UNION {[D -> RoleEntries] : D \in SUBSET ClientIds} :
        "account" \in DOMAIN d => d["account"] \in OtherClientEntries}

GroupLists == {<<>>, <<"/staff">>}

ClaimSets ==
    [preferred_username : {Absent, Some("alice")},
     sub : {Absent, Some("abc-123")},
     email : {Absent, Some("alice@example.org")},
     groups : {Absent} \cup {Some(g) : g \in GroupLists},
     realm_access : {Absent} \cup {Some(e) : e \in RoleEntries},
     resource_access : {Absent} \cup {Some(d) : d \in ResourceAccessDicts}]

\* {} as the default of the two role objects.
EmptyDict == [roles |-> Absent]

NoResourceAccess == [c \in {} |-> EmptyDict]

(***************************************************************************)
(* The User model (pydantic): username must be a string, the other fields  *)
(* have defaults.                                                          *)
(***************************************************************************)
User(username, email, roles, groups, token_claims) ==
    IF Len(username) = 0
    THEN [raised |-> "ValidationError", user |-> Absent]
    ELSE [raised |-> "",
          user |-> Some([username |-> username[1], email |-> email,
                         roles |-> roles, groups |-> groups,
                         token_claims |-> token_claims])]

(***************************************************************************)
(* KeycloakAuth.extract_user_from_claims.                                  *)
(***************************************************************************)
\* Mutation: the roles of every client in resource_access are collected.
CollectRolesOfAllClients(claims) ==
    LET realm_access == Get(claims.realm_access, EmptyDict)
        resource_access == Get(claims.resource_access, NoResourceAccess)
        RolesOf(c) == IF c \in DOMAIN resource_access
                      THEN Get(resource_access[c].roles, <<>>) ELSE <<>>
    IN Get(realm_access.roles, <<>>) \o RolesOf(client_id) \o RolesOf("account")

\* The list `roles` after the two extend calls (lines 270-279).
CollectRoles(claims) ==
    LET realm_access == Get(claims.realm_access, EmptyDict)
        resource_access == Get(claims.resource_access, NoResourceAccess)
        client_roles == IF client_id \in DOMAIN resource_access
                        THEN resource_access[client_id] ELSE EmptyDict
    IN Get(realm_access.roles, <<>>) \o Get(client_roles.roles, <<>>)

\* Mutation: the list is passed on as collected.
ListNoSet(xs) == {xs}

\* list(set(xs)): each element once, in an order the language leaves open.
ListSet(xs) ==
    {l \in [1..Cardinality(Range(xs)) -> Range(xs)] : Range(l) = Range(xs)}

\* Mutation: sub is preferred to preferred_username.
UsernameSubFirst(claims) ==
    IF Len(claims.sub) # 0 THEN claims.sub ELSE claims.preferred_username

\* claims.get("preferred_username", claims.get("sub")); None is Absent.
Username(claims) ==
    IF Len(claims.preferred_username) # 0 THEN claims.preferred_username
    ELSE claims.sub

\* claims.get("groups", [])
Groups(claims) == Get(claims.groups, <<>>)

\* The return statement; roles is the list list(set(roles)) came out as.
ExtractUserFromClaims(claims, roles) ==
    User(Username(claims), claims.email, roles, Groups(claims), claims)

(***************************************************************************)
(* require_role.role_checker, has_role and has_any_role.                   *)
(***************************************************************************)
\* The guard's results carry the User returned or the roles the detail names.
ReturnUser(u) ==
    [kind |-> "return", status |-> 0, detail |-> "current_user",
     required_roles |-> <<>>, www |-> FALSE, user |-> Some(u)]

InsufficientPermissions(required_roles) ==
    [kind |-> "HTTPException", status |-> 403,
     detail |-> "Insufficient permissions. Required roles: ",
     required_roles |-> required_roles, www |-> FALSE, user |-> Absent]

\* Mutation: every required role must be held.
RoleCheckerAllRequired(required_roles, current_user) ==
    IF ~(Range(required_roles) \subseteq Range(current_user.roles))
    THEN InsufficientPermissions(required_roles)
    ELSE ReturnUser(current_user)

\* Mutation: the User handed on keeps only the matching roles.
RoleCheckerNarrows(required_roles, current_user) ==
    IF Range(current_user.roles) \cap Range(required_roles) = {}
    THEN InsufficientPermissions(required_roles)
    ELSE ReturnUser([current_user EXCEPT !.roles = <<>>])

RoleChecker(required_roles, current_user) ==
    IF Range(current_user.roles) \cap Range(required_roles) = {}
    THEN InsufficientPermissions(required_roles)
    ELSE ReturnUser(current_user)

HasAnyRole(user, roles) == Range(user.roles) \cap Range(roles) # {}

(***************************************************************************)
(* The state machine.                                                      *)
(***************************************************************************)
EnvSet == [SettingNames -> EnvValues]

\* One call of extract_user_from_claims on its own, and the guard calls made
\* on the User it returned.
IdleMapper ==
    [pc |-> "idle", claims |-> <<>>, raised |-> "", user |-> <<>>,
     required_roles |-> <<>>, reply |-> NoReply, answer |-> FALSE]

\* The claims of a verified payload or introspection result that only
\* extract_user_from_claims reads are drawn when it reads them.
AdminClaims ==
    [preferred_username |-> Some("alice"), sub |-> Some("abc-123"),
     email |-> Absent, groups |-> Absent,
     realm_access |-> Some([roles |-> Some(<<"admin">>)]),
     resource_access |-> Absent]

PlainClaims ==
    [preferred_username |-> Absent, sub |-> Some("abc-123"),
     email |-> Absent, groups |-> Absent,
     realm_access |-> Absent, resource_access |-> Absent]

BareClaims ==
    [preferred_username |-> Absent, sub |-> Absent,
     email |-> Absent, groups |-> Absent,
     realm_access |-> Absent, resource_access |-> Absent]

RequestClaims == {AdminClaims, PlainClaims, BareClaims}

\* The role lists protected operations are declared with.
EndpointRoles == {<<"admin">>}

\* The protected operations of the application, by their handlers.
Operations ==
    {"get_user_info", "summarize_text", "summarize_document", "query_ollama",
     "list_models"}

\* How a call of the inference server ends for the body that made it.
OllamaOutcomes == {"ok", "Exception"}

\* How the probe of check_health ends: a response with its status, or an
\* exception of httpx or of anything below it.
ProbeOutcomes ==
    [kind : {"response"}, status : {200, 503}]
    \cup [kind : {"ConnectError", "TimeoutException", "OSError"}, status : {0}]

\* What the frame keeps of the probe's end.
ProbeLog(o) ==
    IF o.kind # "response" THEN o.kind
    ELSE IF o.status = 200 THEN "status 200" ELSE "other status"

\* settings.KEYCLOAK_SERVER_URL: its default, or set to nothing.
ServerUrls == {"http://localhost:8080", ""}

\* bool(s) of a string.
Bool(s) == s # ""

\* Mutation: the except clause names httpx.HTTPError only.
CheckHealthCatchesHTTPError(o) ==
    IF o.kind = "response" THEN [raised |-> "", value |-> o.status = 200]
    ELSE IF o.kind \in HttpErrors THEN [raised |-> "", value |-> FALSE]
    ELSE [raised |-> o.kind, value |-> FALSE]

\* OllamaService.check_health from the answer of its GET.
CheckHealth(o) ==
    IF o.kind = "response" THEN [raised |-> "", value |-> o.status = 200]
    ELSE [raised |-> "", value |-> FALSE]

HealthResponse(status, ollama_connected, keycloak_configured) ==
    [status |-> status, ollama_connected |-> ollama_connected,
     keycloak_configured |-> keycloak_configured]

\* The answer of the HTTPBearer scheme to a request without credentials.
NotAuthenticated ==
    [kind |-> "HTTPException", status |-> 403, detail |-> "Not authenticated",
     required_roles |-> <<>>, www |-> FALSE, user |-> <<>>]

Init ==
    /\ jwks_cache = None
    /\ jwks_cache_time = 0
    /\ now = StartTime
    /\ settings \in {LoadSettings(e) : e \in EnvSet}
    /\ rq = [r \in Requests |-> IdleFrame]
    /\ fetched = None
    /\ mp = IdleMapper

\* Time passes while requests wait or none is served; a call that has ended
\* hands its result to its caller at once, and the steps to the response
\* follow without a suspension that a reader of the clock could tell from
\* time passing once the response is sent.
Tick ==
    /\ \A r \in Requests : rq[r].pc \in {"idle", "fetch", "introspect"}
    /\ now < StartTime + MaxTicks * TickStep
    /\ now' = now + TickStep
    /\ UNCHANGED <<jwks_cache, jwks_cache_time, settings, rq, fetched, mp>>

\* get_current_user with local validation configured:
\* await keycloak_auth.validate_token(token), to its first suspension.
ValidateToken(r, tok) ==
    /\ rq[r].pc = "idle"
    /\ ~UseIntrospection
    /\ LET s == GetSigningKey(NewFrame("validate_token", tok),
                              jwks_cache, jwks_cache_time)
       IN /\ rq' = [rq EXCEPT ![r] = s.frame]
          /\ jwks_cache' = s.cache
          /\ jwks_cache_time' = s.time
    /\ UNCHANGED <<now, settings, fetched, mp>>

\* The GET of the key endpoint answers or fails; the coroutine runs on.
JwksFetchReturn(r, o) ==
    /\ rq[r].pc = "fetch"
    /\ LET s == ResumeGetJwks(rq[r], o, jwks_cache, jwks_cache_time)
       IN /\ rq' = [rq EXCEPT ![r] = s.frame]
          /\ jwks_cache' = s.cache
          /\ jwks_cache_time' = s.time
    /\ fetched' = IF o.kind = "ok" THEN o.doc ELSE fetched
    /\ UNCHANGED <<now, settings, mp>>

\* get_current_user with introspection configured:
\* await keycloak_auth.introspect_token(token), to the POST.
IntrospectToken(r, tok) ==
    /\ rq[r].pc = "idle"
    /\ UseIntrospection
    /\ rq' = [rq EXCEPT ![r] =
                [NewFrame("introspect_token", tok) EXCEPT !.pc = "introspect"]]
    /\ UNCHANGED <<jwks_cache, jwks_cache_time, now, settings, fetched, mp>>

IntrospectReturn(r, o) ==
    /\ rq[r].pc = "introspect"
    /\ rq' = [rq EXCEPT ![r] =
                ResumeIntrospect([rq[r] EXCEPT !.response =
                    IF o.kind = "ok" THEN o.active ELSE o.kind], o)]
    /\ UNCHANGED <<jwks_cache, jwks_cache_time, now, settings, fetched, mp>>

\* Mutation: the scheme lets a request without credentials through, and
\* get_current_user hands an empty token to the validator.
NoCredentialsValidates(r) ==
    /\ rq[r].pc = "idle"
    /\ rq' = [rq EXCEPT ![r] =
                GetSigningKey(NewFrame("security", MalformedToken),
                              jwks_cache, jwks_cache_time).frame]
    /\ UNCHANGED <<jwks_cache, jwks_cache_time, now, settings, fetched, mp>>

\* Depends(security): without an Authorization bearer header HTTPBearer
\* answers the request itself, and get_current_user is not called.
NoCredentials(r) ==
    /\ rq[r].pc = "idle"
    /\ rq' = [rq EXCEPT ![r] =
                [IdleFrame EXCEPT !.pc = "end", !.op = "security",
                                  !.reply = NotAuthenticated]]
    /\ UNCHANGED <<jwks_cache, jwks_cache_time, now, settings, fetched, mp>>

\* get_current_user, line 318, once the claims are back.
ExtractUser(r, c) ==
    /\ rq[r].pc = "done"
    /\ rq[r].result.kind = "return"
    /\ \E roles \in ListSet(CollectRoles(c)) :
        LET u == ExtractUserFromClaims(c, roles)
        IN rq' = [rq EXCEPT ![r] =
                    IF u.raised = ""
                    THEN [rq[r] EXCEPT !.pc = "user", !.user = u.user]
                    ELSE [rq[r] EXCEPT !.pc = "end",
                                       !.reply = Raised(u.raised)]]
    /\ UNCHANGED <<jwks_cache, jwks_cache_time, now, settings, fetched, mp>>

\* Mutation: the role check does not wait for get_current_user, and takes a
\* request whose token check failed for a User without roles.
RoleCheckBeforeUser(r, required_roles) ==
    /\ rq[r].pc = "done"
    /\ rq[r].result.kind # "return"
    /\ rq' = [rq EXCEPT ![r] =
                [rq[r] EXCEPT !.pc = "end",
                              !.reply = InsufficientPermissions(required_roles)]]
    /\ UNCHANGED <<jwks_cache, jwks_cache_time, now, settings, fetched, mp>>

\* role_checker(current_user = Depends(get_current_user)) of an operation
\* declared with required_roles.
RoleCheck(r, required_roles) ==
    /\ rq[r].pc = "user"
    /\ rq' = [rq EXCEPT ![r] =
                [rq[r] EXCEPT !.pc = "end",
                              !.reply = RoleChecker(required_roles,
                                                    rq[r].user[1])]]
    /\ UNCHANGED <<jwks_cache, jwks_cache_time, now, settings, fetched, mp>>

\* Mutation: the body does not wait for its current_user.
OperationBodyBeforeUser(r, operation, input_ok) ==
    /\ rq[r].pc = "done"
    /\ rq' = [rq EXCEPT ![r] =
                [rq[r] EXCEPT !.pc = "ollama", !.operation = operation,
                              !.inference = @ + 1]]
    /\ UNCHANGED <<jwks_cache, jwks_cache_time, now, settings, fetched, mp>>

\* The body of a protected operation, entered with the User that
\* Depends(get_current_user) gave it, up to its call of the inference
\* server: get_user_info makes none, summarize_document turns a file it
\* cannot take down first.
OperationBody(r, operation, input_ok) ==
    /\ rq[r].pc = "user"
    /\ rq' = [rq EXCEPT ![r] =
                IF operation = "get_user_info"
                THEN [rq[r] EXCEPT !.pc = "end", !.operation = operation,
                                   !.reply = Response("user")]
                ELSE IF operation = "summarize_document" /\ ~input_ok
                THEN [rq[r] EXCEPT !.pc = "end", !.operation = operation,
                                   !.reply = BodyException(400,
                                       "File type not supported")]
                ELSE [rq[r] EXCEPT !.pc = "ollama", !.operation = operation,
                                   !.inference = @ + 1]]
    /\ UNCHANGED <<jwks_cache, jwks_cache_time, now, settings, fetched, mp>>

\* The inference server answers or fails; the body returns its response or
\* raises the 500 of its except clause.
OllamaReturn(r, o) ==
    /\ rq[r].pc = "ollama"
    /\ rq' = [rq EXCEPT ![r] =
                [rq[r] EXCEPT !.pc = "end",
                              !.reply = IF o = "ok" THEN Response("result")
                                        ELSE BodyException(500, "failed")]]
    /\ UNCHANGED <<jwks_cache, jwks_cache_time, now, settings, fetched, mp>>

\* GET /health: no dependency; check_health sends its probe.
HealthCheck(r) ==
    /\ rq[r].pc = "idle"
    /\ rq' = [rq EXCEPT ![r] =
                [IdleFrame EXCEPT !.pc = "probe", !.op = "health_check"]]
    /\ UNCHANGED <<jwks_cache, jwks_cache_time, now, settings, fetched, mp>>

\* The probe answers or fails; health_check builds its response.
ProbeReturn(r, o, url) ==
    /\ rq[r].pc = "probe"
    /\ LET c == CheckHealth(o)
           f == [rq[r] EXCEPT !.response = ProbeLog(o)]
       IN rq' = [rq EXCEPT ![r] =
                   IF c.raised # ""
                   THEN [f EXCEPT !.pc = "end", !.reply = Raised(c.raised)]
                   ELSE [f EXCEPT !.pc = "end",
                            !.reply = Response("HealthResponse"),
                            !.health = HealthResponse("healthy", c.value,
                                                      Bool(url))]]
    /\ UNCHANGED <<jwks_cache, jwks_cache_time, now, settings, fetched, mp>>

\* The response is sent: the exception of the token check, the answer of a
\* dependency, or what the operation body made; the frame is gone.
Finish(r) ==
    /\ \/ rq[r].pc = "done" /\ rq[r].result.kind # "return"
       \/ rq[r].pc = "end"
    /\ rq' = [rq EXCEPT ![r] = IdleFrame]
    /\ UNCHANGED <<jwks_cache, jwks_cache_time, now, settings, fetched, mp>>

Next ==
    \/ Tick
    \/ \E r \in SeqRequests, tok \in Tokens : ValidateToken(r, tok)
    \/ \E r \in SeqRequests, o \in FetchOutcomes : JwksFetchReturn(r, o)
    \/ \E r \in SeqRequests, tok \in Tokens : IntrospectToken(r, tok)
    \/ \E r \in SeqRequests, o \in IntrospectOutcomes : IntrospectReturn(r, o)
    \/ \E r \in SeqRequests : NoCredentials(r)
    \/ \E r \in SeqRequests, c \in RequestClaims : ExtractUser(r, c)
    \/ \E r \in SeqRequests, rr \in EndpointRoles : RoleCheck(r, rr)
    \/ \E r \in SeqRequests, op \in Operations, ok \in BOOLEAN :
          OperationBody(r, op, ok)
    \/ \E r \in SeqRequests, o \in OllamaOutcomes : OllamaReturn(r, o)
    \/ \E r \in SeqRequests : HealthCheck(r)
    \/ \E r \in SeqRequests, o \in ProbeOutcomes, url \in ServerUrls :
          ProbeReturn(r, o, url)
    \/ \E r \in SeqRequests : Finish(r)

Spec == Init /\ [][Next]_vars

(***************************************************************************)
(* Concurrent requests on the one KeycloakAuth instance: the coroutines of *)
(* both requests interleave at their awaits.  Local validation with the    *)
(* default settings, tokens that are valid throughout, and a key endpoint  *)
(* that answers with a key set or not at all.                              *)
(***************************************************************************)
FarExp == StartTime + 2 * MaxTicks * TickStep

ConcTokens ==
    {[hdr |-> "ok", kid |-> k, alg |-> "RS256", signer |-> k, exp |-> FarExp,
      aud |-> "client_id", iss |-> "issuer_url"] : k \in Kids}

ConcOutcomes ==
    [kind : {"ok"}, doc : {Jwks(<<RsaKey(1)>>), Jwks(<<RsaKey(1), RsaKey(2)>>)}]
    \cup [kind : {"ConnectError"}, doc : {None}]

InitConc ==
    /\ jwks_cache = None
    /\ jwks_cache_time = 0
    /\ now = StartTime
    /\ settings = LoadSettings([n \in SettingNames |-> "unset"])
    /\ rq = [r \in Requests |-> IdleFrame]
    /\ fetched = None
    /\ mp = IdleMapper

NextConc ==
    \/ Tick
    \/ \E r \in Requests, tok \in ConcTokens : ValidateToken(r, tok)
    \/ \E r \in Requests, o \in ConcOutcomes : JwksFetchReturn(r, o)
    \/ \E r \in Requests : ExtractUser(r, AdminClaims)
    \/ \E r \in Requests : OperationBody(r, "get_user_info", TRUE)
    \/ \E r \in Requests : Finish(r)

SpecConc == InitConc /\ [][NextConc]_vars

(***************************************************************************)
(* extract_user_from_claims and the role guards over every claim set.      *)
(***************************************************************************)
InitUser ==
    /\ jwks_cache = None
    /\ jwks_cache_time = 0
    /\ now = StartTime
    /\ settings = LoadSettings([n \in SettingNames |-> "unset"])
    /\ rq = [r \in Requests |-> IdleFrame]
    /\ fetched = None
    /\ mp \in {[IdleMapper EXCEPT !.pc = "claims", !.claims = Some(c)] :
                    c \in ClaimSets}

MapClaims ==
    /\ mp.pc = "claims"
    /\ \E roles \in ListSet(CollectRoles(mp.claims[1])) :
        LET u == ExtractUserFromClaims(mp.claims[1], roles)
        IN mp' = [mp EXCEPT !.pc = IF u.raised = "" THEN "user" ELSE "raised",
                            !.raised = u.raised, !.user = u.user]
    /\ UNCHANGED <<jwks_cache, jwks_cache_time, now, settings, rq, fetched>>

CheckRole(required_roles) ==
    /\ mp.pc = "user"
    /\ mp' = [mp EXCEPT !.pc = "checked", !.required_roles = required_roles,
                        !.reply = RoleChecker(required_roles, mp.user[1])]
    /\ UNCHANGED <<jwks_cache, jwks_cache_time, now, settings, rq, fetched>>

AskAnyRole(roles) ==
    /\ mp.pc = "user"
    /\ mp' = [mp EXCEPT !.pc = "asked", !.required_roles = roles,
                        !.answer = HasAnyRole(mp.user[1], roles)]
    /\ UNCHANGED <<jwks_cache, jwks_cache_time, now, settings, rq, fetched>>

NextUser ==
    \/ MapClaims
    \/ \E rr \in RoleLists : CheckRole(rr)
    \/ \E rr \in RoleLists : AskAnyRole(rr)

SpecUser == InitUser /\ [][NextUser]_vars

(***************************************************************************)
(* Vocabulary of the properties.                                           *)
(***************************************************************************)
Validating(r) == rq[r].op = "validate_token"

Introspecting(r) == rq[r].op = "introspect_token"

Done(r) == rq[r].pc = "done"

\* The error kinds of the design: all are HTTPExceptions, told apart by
\* status and detail.
IsExpiredToken(res) ==
    res.kind = "HTTPException" /\ res.status = 401
    /\ res.detail = "Token has expired"

IsInvalidToken(res) ==
    res.kind = "HTTPException" /\ res.status = 401
    /\ res.detail # "Token has expired"

IsUnavailable(res) == res.kind = "HTTPException" /\ res.status = 503

Returned(res) == res.kind = "return"

\* The get_jwks calls of request r that sent a GET.
FetchCalls(r) == {i \in 1..Len(rq[r].calls) : rq[r].calls[i].fetch}

\* The get_jwks calls of request r that returned a key set.
ReturnedCalls(r) == {i \in 1..Len(rq[r].calls) : rq[r].calls[i].ret = "jwks"}

\* The key set has an entry for the key id.
HasKey(jwks, kid) == \E i \in 1..Len(jwks.keys) : jwks.keys[i].kid = kid

\* The key set publishes the RSA key of that key id, and no other entry
\* under the same key id.
Publishes(jwks, kid) ==
    /\ HasKey(jwks, kid)
    /\ \A i \in 1..Len(jwks.keys) :
          jwks.keys[i].kid = kid => jwks.keys[i] = RsaKey(kid)

\* The first lookup of request r (line 138) ran and missed.
MissedFirst(r) ==
    /\ Len(rq[r].calls) >= 1
    /\ rq[r].calls[1].ret = "jwks"
    /\ ~HasKey(rq[r].calls[1].jwks, rq[r].kid)

(***************************************************************************)
(* C1.  When get_jwks needs a fetch and the fetch fails with an            *)
(* httpx.HTTPError: with a key set cached it returns that cached set and   *)
(* does not raise; with none cached it raises the 503 HTTPException.       *)
(* (What get_jwks returns is what get_signing_key then holds in jwks.)     *)
(***************************************************************************)
C1_FetchFailureServesStaleOrRaises ==
    \A r \in Requests : \A i \in 1..Len(rq[r].calls) :
        LET c == rq[r].calls[i]
        IN (c.fetch /\ c.outcome = "HTTPError") =>
              IF Truthy(c.cached)
              THEN /\ c.ret = "jwks"
                   /\ c.jwks = c.cached
                   /\ (i = Len(rq[r].calls) => rq[r].jwks = c.cached)
              ELSE /\ c.ret = "raise"
                   /\ i = Len(rq[r].calls)
                   /\ Done(r)
                   /\ IsUnavailable(rq[r].result)

\* Both cases in one call of validate_token: the first get_jwks serves the
\* stale set, the forced one finds no cache and raises.
C1_Witness ==
    \E r \in Requests :
        /\ Len(rq[r].calls) = 2
        /\ rq[r].calls[1].outcome = "HTTPError"
        /\ Truthy(rq[r].calls[1].cached)
        /\ rq[r].calls[1].ret = "jwks"
        /\ rq[r].calls[2].outcome = "HTTPError"
        /\ ~Truthy(rq[r].calls[2].cached)
        /\ IsUnavailable(rq[r].result)

(***************************************************************************)
(* C2.  Once a fetch of the key endpoint has succeeded, a failing fetch    *)
(* never ends in the 503: the key set fetched last is served.              *)
(***************************************************************************)
C2_NoUnavailableOnceFetched ==
    \A r \in Requests :
        LET n == Len(rq[r].calls)
        IN (/\ n >= 1
            /\ rq[r].calls[n].outcome = "HTTPError"
            /\ Truthy(fetched)) =>
              /\ ~IsUnavailable(rq[r].result)
              /\ rq[r].calls[n].ret = "jwks"
              /\ rq[r].calls[n].jwks = fetched

(***************************************************************************)
(* C3.  A token that is valid but for its key id being absent from the     *)
(* cached key set (or there being no cached set) is accepted within the    *)
(* call when the next fetch of the key endpoint brings a set holding its   *)
(* key: validate_token returns the claims.                                 *)
(***************************************************************************)
\* Valid apart from the key lookup: RS256, signed by the key its kid names,
\* not expired, audience and issuer as configured.
OtherwiseValid(tok, t) ==
    /\ tok.hdr = "ok"
    /\ tok.kid # NoKid
    /\ tok.alg = "RS256"
    /\ tok.signer = tok.kid
    /\ tok.exp >= t
    /\ tok.aud = "client_id"
    /\ tok.iss = "issuer_url"

FirstFetch(r) == CHOOSE i \in FetchCalls(r) : \A j \in FetchCalls(r) : i <= j

C3_KeyFoundAfterRefreshValidates ==
    \A r \in Requests :
        (/\ Done(r) /\ Validating(r)
         /\ OtherwiseValid(rq[r].token, now)
         /\ ~HasKey(rq[r].start_cache, rq[r].token.kid)
         /\ FetchCalls(r) # {}
         /\ rq[r].calls[FirstFetch(r)].outcome = "ok"
         /\ Publishes(rq[r].calls[FirstFetch(r)].jwks, rq[r].token.kid)) =>
            /\ Returned(rq[r].result)
            /\ rq[r].signing_key = RsaKey(rq[r].token.kid)

\* The miss on a fresh cache, the forced refresh, the second lookup.
C3_Witness ==
    \E r \in Requests :
        /\ Done(r) /\ Validating(r)
        /\ OtherwiseValid(rq[r].token, now)
        /\ rq[r].start_fresh
        /\ ~HasKey(rq[r].start_cache, rq[r].token.kid)
        /\ Len(rq[r].calls) = 2
        /\ ~rq[r].calls[1].fetch
        /\ rq[r].calls[2].outcome = "ok"
        /\ rq[r].lookups = 2
        /\ Returned(rq[r].result)

(***************************************************************************)
(* C4.  On a key-id miss get_signing_key forces exactly one refresh and    *)
(* looks the key id up exactly once more; when the key id is not in the    *)
(* set that lookup reads, the call fails with InvalidToken (401).  Stated  *)
(* for the calls whose forced GET got an answer or an httpx failure.       *)
(***************************************************************************)
C4_MissForcesOneRefreshOneRetry ==
    \A r \in Requests :
        (/\ Done(r) /\ Validating(r)
         /\ MissedFirst(r)
         /\ Len(rq[r].calls) = 2 => rq[r].calls[2].outcome # BadJson) =>
            /\ Len(rq[r].calls) = 2
            /\ rq[r].calls[2].site = 2
            /\ rq[r].calls[2].fetch
            /\ rq[r].lookups = 2
            /\ (~HasKey(rq[r].jwks, rq[r].kid) => IsInvalidToken(rq[r].result))

(***************************************************************************)
(* C5.  As claimed: one validate_token call sends at most one GET to the   *)
(* key endpoint, whatever the cache held when the call began.              *)
(***************************************************************************)
C5_AtMostOneFetchPerCall ==
    \A r \in Requests : Cardinality(FetchCalls(r)) <= 1

(***************************************************************************)
(* C5, amended.  One validate_token call makes at most two get_jwks calls, *)
(* the second being the single forced refresh; it sends at most two GETs,  *)
(* and at most one when the cache was fresh as the call began.             *)
(***************************************************************************)
C5_AtMostOneForcedRefresh ==
    \A r \in Requests :
        /\ Len(rq[r].calls) <= 2
        /\ Cardinality({i \in 1..Len(rq[r].calls) : rq[r].calls[i].site = 2}) <= 1
        /\ Cardinality(FetchCalls(r)) <= 2
        /\ (rq[r].start_fresh => Cardinality(FetchCalls(r)) <= 1)

\* A stale cache: the TTL fetch, a miss in what it brought, the forced fetch.
C5_Witness ==
    \E r \in Requests :
        /\ Done(r) /\ Validating(r)
        /\ Truthy(rq[r].start_cache) /\ ~rq[r].start_fresh
        /\ Cardinality(FetchCalls(r)) = 2
        /\ rq[r].calls[1].outcome = "ok"
        /\ rq[r].calls[2].outcome = "ok"

(***************************************************************************)
(* C6.  As claimed: a token whose exp is in the past is rejected with      *)
(* ExpiredToken whatever else is true of it.  Stated for the tokens whose  *)
(* header parses.                                                          *)
(***************************************************************************)
C6_ExpiredAlwaysExpiredToken ==
    \A r \in Requests :
        (/\ Done(r) /\ Validating(r)
         /\ rq[r].token.hdr = "ok"
         /\ rq[r].token.exp < now) =>
            IsExpiredToken(rq[r].result)

\* The token reached the claim checks of jwt.decode: a key with the RSA
\* fields was found for it, it declares RS256 and its signature verifies.
ReachedClaimChecks(r) ==
    /\ Done(r) /\ Validating(r)
    /\ rq[r].signing_key # NoKey
    /\ rq[r].signing_key.rsa
    /\ rq[r].token.alg = "RS256"
    /\ rq[r].token.signer = rq[r].signing_key.mat

(***************************************************************************)
(* C6, amended.  A token whose exp is in the past and that passes the      *)
(* steps before the claim checks (header, key lookup, algorithm,           *)
(* signature) is rejected with ExpiredToken, never the generic             *)
(* InvalidToken, whatever its audience and issuer.                         *)
(***************************************************************************)
C6_ExpiredAfterSignatureIsExpiredToken ==
    \A r \in Requests :
        (ReachedClaimChecks(r) /\ rq[r].token.exp < now) =>
            /\ IsExpiredToken(rq[r].result)
            /\ rq[r].result.www

\* An expired token with the wrong audience, the audience check on.
C6_Witness ==
    \E r \in Requests :
        /\ ReachedClaimChecks(r)
        /\ rq[r].token.exp < now
        /\ rq[r].token.aud = "other"
        /\ settings["KEYCLOAK_VERIFY_AUDIENCE"]
        /\ IsExpiredToken(rq[r].result)

(***************************************************************************)
(* C7.  As claimed: a token whose header declares another algorithm than   *)
(* RS256 is rejected with InvalidToken.  Stated for the calls that end in  *)
(* a value or an HTTPException.                                            *)
(***************************************************************************)
C7_OtherAlgorithmIsInvalidToken ==
    \A r \in Requests :
        (/\ Done(r) /\ Validating(r)
         /\ rq[r].token.hdr = "ok"
         /\ rq[r].token.alg # "RS256"
         /\ rq[r].result.kind # "unhandled") =>
            IsInvalidToken(rq[r].result)

(***************************************************************************)
(* C7, amended.  validate_token never returns claims for a token whose     *)
(* header declares another algorithm than RS256; the allowed list is       *)
(* {RS256}, and once a key with the RSA fields has been found for the      *)
(* token the rejection is InvalidToken.                                    *)
(***************************************************************************)
C7_AlgorithmPinned ==
    /\ algorithms = {"RS256"}
    /\ \A r \in Requests :
        (Done(r) /\ Validating(r) /\ rq[r].token.alg # "RS256") =>
            /\ ~Returned(rq[r].result)
            /\ (rq[r].signing_key # NoKey /\ rq[r].signing_key.rsa) =>
                  IsInvalidToken(rq[r].result)

\* An unsigned token that is right in every other respect.
C7_Witness ==
    \E r \in Requests :
        /\ Done(r) /\ Validating(r)
        /\ rq[r].token.alg = "none"
        /\ rq[r].token.signer = rq[r].token.kid
        /\ rq[r].token.exp >= now
        /\ rq[r].token.aud = "client_id"
        /\ rq[r].token.iss = "issuer_url"
        /\ rq[r].signing_key = RsaKey(rq[r].token.kid)
        /\ IsInvalidToken(rq[r].result)

(***************************************************************************)
(* C8.  A correctly signed, unexpired token is rejected with InvalidToken  *)
(* when the audience check is on and its audience is not the client id,    *)
(* and when the issuer check is on and its issuer is not the realm's       *)
(* issuer URL; with a check off, the call ends the same whatever the       *)
(* audience (the issuer) is.  Both checks are on when the environment      *)
(* sets nothing.                                                           *)
(***************************************************************************)
Unset == [n \in SettingNames |-> "unset"]

C8_AudienceAndIssuerChecks ==
    /\ LoadSettings(Unset)["KEYCLOAK_VERIFY_AUDIENCE"]
    /\ LoadSettings(Unset)["KEYCLOAK_VERIFY_ISSUER"]
    /\ \A r \in Requests :
        /\ (ReachedClaimChecks(r) /\ rq[r].token.exp >= now) =>
              /\ (settings["KEYCLOAK_VERIFY_AUDIENCE"]
                  /\ rq[r].token.aud # "client_id") =>
                    IsInvalidToken(rq[r].result)
              /\ (settings["KEYCLOAK_VERIFY_ISSUER"]
                  /\ rq[r].token.iss # "issuer_url") =>
                    IsInvalidToken(rq[r].result)
        /\ (Done(r) /\ Validating(r) /\ rq[r].signing_key # NoKey) =>
              /\ ~settings["KEYCLOAK_VERIFY_AUDIENCE"] =>
                    \A a \in {"client_id", "other"} :
                        VerifyToken([rq[r].token EXCEPT !.aud = a],
                                    rq[r].signing_key, now) = rq[r].result
              /\ ~settings["KEYCLOAK_VERIFY_ISSUER"] =>
                    \A i \in {"issuer_url", "other"} :
                        VerifyToken([rq[r].token EXCEPT !.iss = i],
                                    rq[r].signing_key, now) = rq[r].result

\* The scenario of the design: valid token, audience check on, other audience.
C8_Witness ==
    \E r \in Requests :
        /\ ReachedClaimChecks(r)
        /\ rq[r].token.exp >= now
        /\ settings["KEYCLOAK_VERIFY_AUDIENCE"]
        /\ rq[r].token.aud = "other"
        /\ rq[r].token.iss = "issuer_url"
        /\ IsInvalidToken(rq[r].result)

(***************************************************************************)
(* C9.  A validate_token call on a token whose header is malformed or has  *)
(* no key id ends at once with InvalidToken (401): no get_jwks call, no    *)
(* GET, no lookup, and the cache and its timestamp are as they were.       *)
(***************************************************************************)
C9_BadHeaderRejectedBeforeLookup ==
    [][\A r \in Requests :
         (/\ rq[r].pc = "idle"
          /\ rq'[r].pc # "idle"
          /\ rq'[r].op = "validate_token"
          /\ (rq'[r].token.hdr = "malformed" \/ rq'[r].token.kid = NoKid)) =>
            /\ rq'[r].pc = "done"
            /\ IsInvalidToken(rq'[r].result)
            /\ rq'[r].calls = <<>>
            /\ rq'[r].lookups = 0
            /\ jwks_cache' = jwks_cache
            /\ jwks_cache_time' = jwks_cache_time
            /\ fetched' = fetched]_vars

\* A token without key id met a stale cache, which a lookup would refetch.
C9_Witness ==
    \E r \in Requests :
        /\ Done(r) /\ Validating(r)
        /\ rq[r].token.hdr = "ok"
        /\ rq[r].token.kid = NoKid
        /\ IsInvalidToken(rq[r].result)
        /\ Truthy(jwks_cache)
        /\ ~rq[r].start_fresh
        /\ jwks_cache = rq[r].start_cache

(***************************************************************************)
(* C10.  introspect_token returns the response as claims only when its     *)
(* active flag is true; a response with active false or without the flag   *)
(* is rejected with InvalidToken (401), not with 503.                      *)
(***************************************************************************)
C10_IntrospectionNeedsActive ==
    \A r \in Requests :
        (Done(r) /\ Introspecting(r)) =>
            /\ settings["KEYCLOAK_USE_INTROSPECTION"]
            /\ Returned(rq[r].result) => rq[r].response = "true"
            /\ rq[r].response \in {"false", "absent"} =>
                  /\ IsInvalidToken(rq[r].result)
                  /\ ~IsUnavailable(rq[r].result)

\* The provider answered without an active flag.
C10_Witness ==
    \E r \in Requests :
        /\ Done(r) /\ Introspecting(r)
        /\ rq[r].response = "absent"
        /\ IsInvalidToken(rq[r].result)

(***************************************************************************)
(* C11: every network or HTTP failure of the introspection call, a         *)
(* connection error, a timeout or a non-2xx status, ends introspect_token  *)
(* with the 503 of an unavailable identity provider: never with claims,    *)
(* never with a 401, never as an exception nothing handles.                *)
(***************************************************************************)
C11_IntrospectionFailureIsUnavailable ==
    \A r \in Requests :
        (Done(r) /\ Introspecting(r) /\ rq[r].response \in HttpErrors)
            => /\ IsUnavailable(rq[r].result)
               /\ rq[r].result.detail = "Token introspection failed"

C11_Witness ==
    \E r \in Requests :
        /\ Done(r) /\ Introspecting(r)
        /\ rq[r].response = "TimeoutException"
        /\ IsUnavailable(rq[r].result)

(***************************************************************************)
(* C12: a request's token is checked by exactly one of introspect_token    *)
(* and validate_token, and which one is decided by the switch              *)
(* KEYCLOAK_USE_INTROSPECTION alone; an introspecting request asks for no  *)
(* key set and looks no key up, and with the switch on the key set cache   *)
(* stays as the constructor left it.                                       *)
(***************************************************************************)
C12_OneCheckChosenBySwitch ==
    /\ \A r \in Requests :
        /\ rq[r].op \in {"validate_token", "introspect_token"} =>
              (Introspecting(r) <=> settings["KEYCLOAK_USE_INTROSPECTION"])
        /\ Introspecting(r) =>
              /\ rq[r].calls = <<>> /\ rq[r].lookups = 0
              /\ rq[r].jwks = None /\ rq[r].signing_key = NoKey
        /\ Validating(r) => rq[r].response = "none"
    /\ settings["KEYCLOAK_USE_INTROSPECTION"] =>
          /\ jwks_cache = None /\ jwks_cache_time = 0
          /\ fetched = None

C12_Witness ==
    \E r \in Requests :
        /\ Done(r) /\ Introspecting(r) /\ Returned(rq[r].result)
        /\ settings["KEYCLOAK_USE_INTROSPECTION"]

(***************************************************************************)
(* Vocabulary of the properties of the claim mapper and the role guard.    *)
(***************************************************************************)
Mapped == mp.pc \in {"user", "checked", "asked"}

\* The list under claims['realm_access']['roles'], empty when a key is missing.
RealmRoleList(c) ==
    IF Len(c.realm_access) = 0 \/ Len(c.realm_access[1].roles) = 0 THEN <<>>
    ELSE c.realm_access[1].roles[1]

\* The list under claims['resource_access'][client_id]['roles'].
ClientRoleList(c) ==
    IF Len(c.resource_access) = 0 THEN <<>>
    ELSE IF client_id \notin DOMAIN c.resource_access[1] THEN <<>>
    ELSE IF Len(c.resource_access[1][client_id].roles) = 0 THEN <<>>
    ELSE c.resource_access[1][client_id].roles[1]

Occurrences(xs, x) == Cardinality({i \in 1..Len(xs) : xs[i] = x})

(***************************************************************************)
(* C13: the roles of the User that extract_user_from_claims returns are    *)
(* the union of the realm roles and the roles of the configured client,    *)
(* and each of them is listed once, also when the two lists overlap or one *)
(* of them repeats a role.                                                 *)
(***************************************************************************)
C13_RolesAreUnionOnce ==
    Mapped =>
        LET c == mp.claims[1]
            u == mp.user[1]
        IN /\ Range(u.roles) =
                  Range(RealmRoleList(c)) \cup Range(ClientRoleList(c))
           /\ \A x \in Range(u.roles) : Occurrences(u.roles, x) = 1

C13_Witness ==
    /\ mp.pc = "user"
    /\ RealmRoleList(mp.claims[1]) = <<"admin", "admin">>
    /\ ClientRoleList(mp.claims[1]) = <<"admin", "user">>
    /\ Len(mp.user[1].roles) = 2

(***************************************************************************)
(* C14: the username of the returned User is the preferred_username claim  *)
(* when the claims have one and the sub claim when they have none, and its *)
(* groups are the groups claim, or the empty list without that claim.      *)
(***************************************************************************)
C14_UsernameAndGroups ==
    Mapped =>
        LET c == mp.claims[1]
            u == mp.user[1]
        IN /\ Len(c.preferred_username) # 0 =>
                  u.username = c.preferred_username[1]
           /\ (Len(c.preferred_username) = 0 /\ Len(c.sub) # 0) =>
                  u.username = c.sub[1]
           /\ Len(c.groups) # 0 => u.groups = c.groups[1]
           /\ Len(c.groups) = 0 => u.groups = <<>>

C14_Witness ==
    /\ mp.pc = "user"
    /\ mp.claims[1].preferred_username = Absent
    /\ mp.claims[1].sub = Some("abc-123")
    /\ mp.claims[1].groups = Absent
    /\ mp.user[1].username = "abc-123"
    /\ mp.user[1].groups = <<>>

(***************************************************************************)
(* C15: extract_user_from_claims never raises: for every claim set, also   *)
(* one without preferred_username and sub, or without realm_access,        *)
(* resource_access, email or groups, it returns a User.                    *)
(***************************************************************************)
C15_MapperNeverRaises ==
    /\ mp.pc # "raised"
    /\ mp.raised = ""

\* The User holds one of the required roles.
SharesRole(u, required) ==
    \E i \in 1..Len(u.roles), j \in 1..Len(required) : u.roles[i] = required[j]

(***************************************************************************)
(* C16: role_checker lets a User through, and has_any_role answers True,   *)
(* exactly when the User holds at least one of the required roles: one     *)
(* match is enough, and a User without roles passes no requirement.        *)
(***************************************************************************)
C16_PassIffSharedRole ==
    /\ mp.pc = "checked" =>
          /\ (mp.reply.kind = "return")
                 <=> SharesRole(mp.user[1], mp.required_roles)
          /\ mp.user[1].roles = <<>> => mp.reply.kind = "HTTPException"
    /\ mp.pc = "asked" =>
          /\ mp.answer <=> SharesRole(mp.user[1], mp.required_roles)
          /\ mp.user[1].roles = <<>> => ~mp.answer

C16_Witness ==
    /\ mp.pc = "checked"
    /\ mp.required_roles = <<"admin", "user">>
    /\ mp.user[1].roles = <<"user">>
    /\ mp.reply.kind = "return"

(***************************************************************************)
(* C17: a role check that passes returns the User it was given, no field   *)
(* changed; one that fails raises the 403 whose detail names the required  *)
(* roles; either way the User and the shared state stay as they were.      *)
(***************************************************************************)
C17_RoleCheckReturnsSameUser ==
    [][(mp.pc = "user" /\ mp'.pc = "checked") =>
          /\ mp'.user = mp.user
          /\ UNCHANGED <<jwks_cache, jwks_cache_time, settings, fetched, rq>>
          /\ SharesRole(mp.user[1], mp'.required_roles) =>
                /\ mp'.reply.kind = "return"
                /\ mp'.reply.user = mp.user
          /\ ~SharesRole(mp.user[1], mp'.required_roles) =>
                /\ mp'.reply.kind = "HTTPException"
                /\ mp'.reply.status = 403
                /\ mp'.reply.detail =
                       "Insufficient permissions. Required roles: "
                /\ mp'.reply.required_roles = mp'.required_roles
                /\ mp'.reply.user = <<>>]_vars

C17_Witness ==
    /\ mp.pc = "checked"
    /\ mp.reply.kind = "return"
    /\ Len(mp.user[1].roles) = 2
    /\ mp.user[1].groups = <<"/staff">>
    /\ mp.reply.user = mp.user

\* The response is the 403 of the role guard.
IsInsufficientPermissions(res) ==
    /\ res.kind = "HTTPException" /\ res.status = 403
    /\ res.detail = "Insufficient permissions. Required roles: "

\* The request was answered by the authentication gate.
RejectedByTokenCheck(r) ==
    rq[r].pc = "done" /\ rq[r].result.kind = "HTTPException"

RejectedBySecurity(r) == rq[r].pc = "end" /\ rq[r].op = "security"

\* get_current_user has returned a User to the request.
Authenticated(r) ==
    /\ Len(rq[r].user) = 1
    /\ rq[r].op \in {"validate_token", "introspect_token"}
    /\ Returned(rq[r].result)

\* The role guard has run for the request.
RoleChecked(r) ==
    rq[r].reply.kind = "return" \/ IsInsufficientPermissions(rq[r].reply)

(***************************************************************************)
(* C18, as claimed: the role check runs only after get_current_user has    *)
(* returned a User, and a request whose token is missing, invalid, expired *)
(* or unverifiable is rejected with 401 or 503, never with the 403 of the  *)
(* role guard.                                                             *)
(***************************************************************************)
C18_AuthRejectsWith401Or503 ==
    \A r \in Requests :
        /\ RoleChecked(r) => Authenticated(r)
        /\ RejectedByTokenCheck(r) =>
              /\ rq[r].result.status \in {401, 503}
              /\ rq[r].reply = NoReply /\ Len(rq[r].user) = 0
        /\ RejectedBySecurity(r) =>
              /\ rq[r].reply.status \in {401, 503}
              /\ ~IsInsufficientPermissions(rq[r].reply)
              /\ Len(rq[r].user) = 0

(***************************************************************************)
(* C18, amended: the role check runs only after get_current_user has       *)
(* returned a User; a request without a token is rejected by the bearer    *)
(* scheme with its own 403, one whose token is invalid, expired or         *)
(* unverifiable with 401 or 503, and none of them with the 403 of the role *)
(* guard, which only a request with a User can get.                        *)
(***************************************************************************)
C18_SequentialGates ==
    \A r \in Requests :
        /\ RoleChecked(r) => Authenticated(r)
        /\ RejectedByTokenCheck(r) =>
              /\ rq[r].result.status \in {401, 503}
              /\ rq[r].reply = NoReply /\ Len(rq[r].user) = 0
        /\ RejectedBySecurity(r) =>
              /\ rq[r].reply.status = 403
              /\ rq[r].reply.detail = "Not authenticated"
              /\ ~IsInsufficientPermissions(rq[r].reply)
              /\ Len(rq[r].user) = 0
              /\ rq[r].result = Pending

C18_Witness ==
    \E r \in Requests :
        /\ IsInsufficientPermissions(rq[r].reply)
        /\ Authenticated(r)
        /\ rq[r].user[1].roles = <<>>
        /\ rq[r].reply.required_roles = <<"admin">>

\* The token of request r is one the configured check must turn down, told
\* from the token and the answers the request got, not from its result: a
\* header that does not parse or names no key, a key set that came back
\* twice without the key id, a found key under which the algorithm, the
\* signature, the expiry or a switched-on claim check fails, or an
\* introspection answer that is not active.
TokenCheckFails(r) ==
    LET tok == rq[r].token
        key == rq[r].signing_key
    IN \/ /\ Validating(r)
          /\ \/ tok.hdr # "ok"
             \/ tok.kid = NoKid
             \/ /\ Len(rq[r].calls) = 2
                /\ rq[r].calls[2].ret = "jwks"
                /\ ~HasKey(rq[r].calls[2].jwks, tok.kid)
             \/ /\ key # NoKey /\ key.rsa
                /\ \/ tok.alg # "RS256"
                   \/ tok.signer # key.mat
                   \/ tok.exp < now
                   \/ settings["KEYCLOAK_VERIFY_AUDIENCE"]
                          /\ tok.aud # "client_id"
                   \/ settings["KEYCLOAK_VERIFY_ISSUER"]
                          /\ tok.iss # "issuer_url"
       \/ /\ Introspecting(r)
          /\ rq[r].response \in {"false", "absent"}

(***************************************************************************)
(* C19: a request without an Authorization bearer header is answered with  *)
(* 403 and no token validation, introspection or key fetch is attempted    *)
(* for it; a request whose token fails the check is answered with 401.     *)
(***************************************************************************)
C19_MissingIs403FailedIs401 ==
    \A r \in Requests :
        /\ rq[r].op = "security" =>
              /\ rq[r].pc = "end"
              /\ rq[r].reply.kind = "HTTPException"
              /\ rq[r].reply.status = 403
              /\ rq[r].result = Pending
              /\ rq[r].calls = <<>> /\ rq[r].lookups = 0
              /\ rq[r].response = "none"
        /\ (Done(r) /\ TokenCheckFails(r)) =>
              /\ rq[r].result.kind = "HTTPException"
              /\ rq[r].result.status = 401

C19_Witness ==
    /\ \E r \in Requests : RejectedBySecurity(r)
    /\ jwks_cache # None

(***************************************************************************)
(* C20: every 401 of the authentication path, for an expired token, a      *)
(* failed signature or claim check, a missing key id, a malformed header,  *)
(* an unresolvable key id or an inactive introspection answer, carries the *)
(* header WWW-Authenticate: Bearer.                                        *)
(***************************************************************************)
C20_Every401HasBearerHint ==
    \A r \in Requests :
        (/\ Done(r)
         /\ rq[r].result.kind = "HTTPException"
         /\ rq[r].result.status = 401) => rq[r].result.www

(***************************************************************************)
(* C21: every token check ends with the claims or with one of the          *)
(* structured rejections, the 401 of an invalid or expired token or the    *)
(* 503 of an unavailable identity provider; no failure inside              *)
(* validate_token, introspect_token or get_jwks, a response that is not    *)
(* JSON or a matching key without the RSA fields included, leaves the call *)
(* as any other exception.                                                 *)
(***************************************************************************)
C21_EveryEndIsStructured ==
    \A r \in Requests :
        Done(r) =>
            \/ Returned(rq[r].result)
            \/ IsExpiredToken(rq[r].result)
            \/ IsInvalidToken(rq[r].result)
            \/ IsUnavailable(rq[r].result)

(***************************************************************************)
(* C24: when validate_token starts with a key set cached whose age is      *)
(* below the 3600 s of the cache duration, get_jwks hands that set back    *)
(* without a GET, and a token whose key id is in it is checked with no GET *)
(* at all; when the age has reached the duration, or nothing is cached,    *)
(* get_jwks sends the GET.                                                 *)
(***************************************************************************)
C24_FreshCacheNoFetchStaleFetches ==
    [][\A r \in Requests :
        (/\ rq[r].pc = "idle"
         /\ rq'[r].op = "validate_token"
         /\ Len(rq'[r].calls) >= 1) =>
            IF ~jwks_cache.is_none /\ now - jwks_cache_time < 3600
            THEN /\ ~rq'[r].calls[1].fetch
                 /\ rq'[r].calls[1].ret = "jwks"
                 /\ rq'[r].calls[1].jwks = jwks_cache
                 /\ HasKey(jwks_cache, rq'[r].token.kid) =>
                       /\ rq'[r].pc = "done"
                       /\ \A i \in 1..Len(rq'[r].calls) : ~rq'[r].calls[i].fetch
                       /\ UNCHANGED <<jwks_cache, jwks_cache_time>>
            ELSE /\ rq'[r].calls[1].fetch
                 /\ rq'[r].pc = "fetch"]_vars

C24_Witness ==
    \E r \in Requests :
        /\ Done(r) /\ Validating(r) /\ Returned(rq[r].result)
        /\ rq[r].calls # <<>>
        /\ FetchCalls(r) = {}
        /\ now - jwks_cache_time = 1800

(***************************************************************************)
(* C27: when the GET of get_jwks succeeds, the cache becomes the fetched   *)
(* key set and its timestamp the current_time that call took when it       *)
(* began; when the GET fails, get_jwks leaves the cached set and the       *)
(* timestamp as they were.  (A lookup miss that follows in the same step   *)
(* lets get_signing_key clear the set for its forced refresh; the          *)
(* timestamp is not touched by that.)                                      *)
(***************************************************************************)
C27_FetchWritesCacheFailureKeepsIt ==
    [][\A r \in Requests :
        (rq[r].pc = "fetch" /\ rq'[r] # rq[r]) =>
            LET log == rq'[r].calls[Len(rq[r].calls)]
                forced == rq[r].site = 1 /\ rq'[r].site = 2
            IN /\ log.outcome = "ok" =>
                      /\ log.jwks = fetched'
                      /\ jwks_cache_time' = rq[r].current_time
                      /\ ~forced => jwks_cache' = fetched'
               /\ log.outcome # "ok" =>
                      /\ jwks_cache_time' = jwks_cache_time
                      /\ ~forced => jwks_cache' = jwks_cache
                      /\ log.ret = "jwks" => log.jwks = jwks_cache]_vars

C27_Witness ==
    \E r \in Requests :
        /\ Done(r) /\ Validating(r)
        /\ Len(rq[r].calls) = 1
        /\ rq[r].calls[1].outcome = "ok"
        /\ jwks_cache = rq[r].calls[1].jwks
        /\ jwks_cache_time = rq[r].current_time
        /\ rq[r].current_time < now

\* The GETs the request has sent to the key endpoint after the step.
FetchCallsAfter(r) == {i \in 1..Len(rq'[r].calls) : rq'[r].calls[i].fetch}

(***************************************************************************)
(* C25: a failed token check is not tried again, and a get_current_user    *)
(* call is over after a fixed number of outbound calls: the answer to the  *)
(* one introspection POST ends it; the answer to a key GET ends it or, on  *)
(* the first lookup only, is followed by the one forced refresh, whose     *)
(* answer ends it; so at most two GETs are sent, and an ended check does   *)
(* not start over.                                                         *)
(***************************************************************************)
C25_NoRetryBoundedCalls ==
    [][\A r \in Requests :
        rq'[r] # rq[r] =>
            /\ Cardinality(FetchCallsAfter(r)) <= 2
            /\ Len(rq'[r].calls) <= 2
            /\ rq[r].pc = "introspect" =>
                  rq'[r].pc = "done" /\ rq'[r].calls = <<>>
            /\ rq[r].pc = "fetch" =>
                  \/ rq'[r].pc = "done"
                  \/ /\ rq'[r].pc = "fetch"
                     /\ rq[r].site = 1 /\ rq'[r].site = 2
                     /\ Len(rq'[r].calls) = Len(rq[r].calls) + 1
            /\ rq[r].pc = "done" => rq'[r].pc \in {"idle", "user", "end"}
            /\ rq[r].pc \in {"user", "end"} =>
                  rq'[r].pc \notin {"fetch", "introspect", "done"}]_vars

C25_Witness ==
    \E r \in Requests :
        /\ Done(r) /\ Validating(r)
        /\ Cardinality(FetchCalls(r)) = 2
        /\ IsInvalidToken(rq[r].result)

\* The roles listed in resource_access under a client other than the
\* configured one.
OtherClientRoles(c) ==
    IF Len(c.resource_access) = 0 THEN {}
    ELSE UNION {IF Len(c.resource_access[1][k].roles) = 0 THEN {}
                ELSE Range(c.resource_access[1][k].roles[1]) :
                    k \in DOMAIN c.resource_access[1] \ {client_id}}

(***************************************************************************)
(* C30: a role listed in resource_access only under another client than    *)
(* the configured one is not among the roles of the extracted User; the    *)
(* User's token_claims are the claims passed in, and the call leaves those *)
(* claims as they were.                                                    *)
(***************************************************************************)
C30_OtherClientRolesLeftOut ==
    [][(mp.pc = "claims" /\ mp'.pc = "user") =>
          LET c == mp.claims[1]
              u == mp'.user[1]
          IN /\ \A x \in OtherClientRoles(c) :
                    x \in Range(u.roles) =>
                        x \in Range(RealmRoleList(c)) \cup Range(ClientRoleList(c))
             /\ u.token_claims = c
             /\ mp'.claims = mp.claims]_vars

C30_Witness ==
    /\ mp.pc = "user"
    /\ OtherClientRoles(mp.claims[1]) = {"admin"}
    /\ ClientRoleList(mp.claims[1]) = <<"user">>
    /\ mp.user[1].roles = <<"user">>
    /\ mp.user[1].token_claims = mp.claims[1]

(***************************************************************************)
(* C26: /health runs no authentication and always answers 200 with the     *)
(* fields status, ollama_connected and keycloak_configured; when the probe *)
(* of the inference server fails, by a connection error, a timeout or any  *)
(* other exception, check_health does not raise and ollama_connected is    *)
(* false.                                                                  *)
(***************************************************************************)
C26_HealthAlways200 ==
    \A r \in Requests :
        rq[r].op = "health_check" =>
            /\ rq[r].result = Pending /\ Len(rq[r].user) = 0
            /\ rq[r].calls = <<>> /\ rq[r].lookups = 0
            /\ rq[r].pc \in {"probe", "end"}
            /\ rq[r].pc = "end" =>
                  /\ rq[r].reply.kind = "response"
                  /\ rq[r].reply.status = 200
                  /\ rq[r].health.status = "healthy"
                  /\ rq[r].response
                         \in {"ConnectError", "TimeoutException", "OSError"}
                       => ~rq[r].health.ollama_connected
                  /\ rq[r].health.ollama_connected
                       <=> rq[r].response = "status 200"

C26_Witness ==
    \E r \in Requests :
        /\ rq[r].op = "health_check" /\ rq[r].pc = "end"
        /\ rq[r].response = "OSError"
        /\ rq[r].reply.status = 200
        /\ ~rq[r].health.ollama_connected
        /\ rq[r].health.keycloak_configured

(***************************************************************************)
(* C28: the body of a protected operation, and with it every call of the   *)
(* inference server a request causes, runs only once get_current_user has  *)
(* returned a User for that request; a request that authentication turned  *)
(* down has entered no body and made no such call.                         *)
(***************************************************************************)
C28_BodyOnlyWithUser ==
    \A r \in Requests :
        /\ (rq[r].operation # "none" \/ rq[r].inference > 0
            \/ rq[r].pc = "ollama") => Authenticated(r)
        /\ (RejectedByTokenCheck(r) \/ RejectedBySecurity(r)
            \/ rq[r].reply.kind = "unhandled" \/ rq[r].result.kind = "unhandled") =>
              /\ rq[r].operation = "none"
              /\ rq[r].inference = 0
        /\ rq[r].inference <= 1

C28_Witness ==
    \E r \in Requests :
        /\ rq[r].pc = "ollama"
        /\ rq[r].operation = "summarize_text"
        /\ Authenticated(r)
        /\ rq[r].inference = 1

\* The entries of request r's call log that the step wrote or closed.
LoggedByStep(r) ==
    {i \in 1..Len(rq'[r].calls) :
        i > Len(rq[r].calls) \/ rq'[r].calls[i] # rq[r].calls[i]}

(***************************************************************************)
(* C22: however concurrent requests interleave, a key set that get_jwks    *)
(* returns is as a whole the set one successful GET delivered, the last    *)
(* one before the return; the cache never holds anything else, and a key   *)
(* set and its timestamp are stored in the same step, by the request whose *)
(* GET succeeded, with the current_time of that request.                   *)
(***************************************************************************)
C22_CacheReplacedAtomically ==
    [][/\ ~jwks_cache'.is_none => jwks_cache' = fetched'
       /\ \A r \in Requests : \A i \in LoggedByStep(r) :
             rq'[r].calls[i].ret = "jwks" =>
                 /\ rq'[r].calls[i].jwks \in {fetched, fetched'}
                 /\ ~rq'[r].calls[i].jwks.is_none
       /\ (jwks_cache_time' # jwks_cache_time
           \/ (jwks_cache' # jwks_cache /\ ~jwks_cache'.is_none)) =>
             \E r \in Requests :
                 /\ rq[r].pc = "fetch" /\ rq'[r] # rq[r]
                 /\ rq'[r].calls[Len(rq[r].calls)].outcome = "ok"
                 /\ rq'[r].calls[Len(rq[r].calls)].jwks = fetched'
                 /\ jwks_cache_time' = rq[r].current_time
                 /\ jwks_cache' \in {fetched', None}]_vars

C22_Witness ==
    /\ \E r \in Requests : rq[r].pc = "fetch"
    /\ \E r \in Requests :
          /\ Done(r) /\ Len(rq[r].calls) = 1
          /\ rq[r].calls[1].outcome = "ok"
          /\ rq[r].start_cache # None
          /\ rq[r].start_cache # jwks_cache
          /\ jwks_cache = rq[r].calls[1].jwks
          /\ jwks_cache_time = rq[r].current_time

(***************************************************************************)
(* C23: a validate_token call with a valid token whose key id is in the    *)
(* key set cached when the call started is never rejected on account of    *)
(* another request's refresh: while the key set fetched last publishes the *)
(* key and every key set the call itself fetched publishes it, the call    *)
(* is pending or has returned the claims.                                  *)
(***************************************************************************)
C23_OverlappingRefreshNeverRejects ==
    \A r \in Requests :
        (/\ Validating(r)
         /\ OtherwiseValid(rq[r].token, now)
         /\ Truthy(rq[r].start_cache)
         /\ Publishes(rq[r].start_cache, rq[r].token.kid)
         /\ Truthy(fetched)
         /\ Publishes(fetched, rq[r].token.kid)
         /\ \A i \in FetchCalls(r) :
               rq[r].calls[i].outcome = "ok" =>
                   Publishes(rq[r].calls[i].jwks, rq[r].token.kid)) =>
            (rq[r].result = Pending \/ Returned(rq[r].result))

(***************************************************************************)
(* C29: the cache timestamp never decreases, and a cached key set is never *)
(* replaced by the answer of a GET whose get_jwks call began before the    *)
(* call that stored the set now cached.                                    *)
(***************************************************************************)
C29_CacheOnlyMovesForward ==
    [][/\ jwks_cache_time' >= jwks_cache_time
       /\ \A r \in Requests :
             (/\ rq[r].pc = "fetch" /\ rq'[r] # rq[r]
              /\ Truthy(jwks_cache)
              /\ rq[r].current_time < jwks_cache_time) =>
                 fetched' = fetched]_vars

====
